---- MODULE Spec2Model ----
(***************************************************************************)
(* OptionSpinner.py: one run of main().  The roster cache file, the        *)
(* liquidity CSV file, the Wikipedia roster page and the option-chain      *)
(* provider are the environment; a run reads the command line, resolves    *)
(* the S&P-500 roster, fetches one open-interest figure per ticker, ranks  *)
(* the table, writes it, and samples tickers above the median.             *)
(*                                                                         *)
(* Conventions.  Dates are day numbers.  pct_of_max is kept in hundredths  *)
(* of a percent (10000 = 100.00) with a nan flag for 0/0.  The median is   *)
(* kept doubled (median2) so that the mean of two middle values stays an   *)
(* integer.  Python's None is the record [some |-> FALSE].                 *)
(***************************************************************************)
EXTENDS Integers, Sequences, FiniteSets, TLC

\* ------------------------------------------------------------------ bounds
MaxOI    == 3      \* open interest of one ticker ranges over 0..MaxOI
MaxCount == 2      \* --count ranges over -1..MaxCount
MaxSeed  == 1      \* --seed ranges over 0..MaxSeed (or is not given)
RngMod   == 3      \* size of the stand-in generator's state space
Today    == 20     \* the day number of the run

\* ------------------------------------------------------- program constants
MAX_CACHE_AGE_DAYS == 7

None    == [some |-> FALSE]
Some(x) == [some |-> TRUE, val |-> x]

TickerSeq == <<"AAA", "BBB", "CCC", "DDD">>
Tickers   == {TickerSeq[k] : k \in 1..Len(TickerSeq)}

Range(s)  == {s[k] : k \in 1..Len(s)}
Pos(t)    == CHOOSE k \in 1..Len(TickerSeq) : TickerSeq[k] = t

\* Rosters: non-empty sequences of distinct symbols, in listing order or in
\* the reverse of it.
Rosters ==
  LET Inj(n) == {s \in [1..n -> Tickers] : \A a, b \in 1..n : a # b => s[a] # s[b]}
      All    == UNION {Inj(n) : n \in 1..Len(TickerSeq)}
      Up(s)  == \A a, b \in 1..Len(s) : a < b => Pos(s[a]) < Pos(s[b])
      Dn(s)  == \A a, b \in 1..Len(s) : a < b => Pos(s[a]) > Pos(s[b])
  IN  {s \in All : Up(s) \/ Dn(s)}

\* ------------------------------------------------ 1. membership helpers
\* The roster cache file: missing, unreadable as JSON with both keys and an
\* ISO date ("corrupt"), or a JSON object whose "tickers" is a list or null.
MissingFile == [kind |-> "missing", tickers |-> None, as_of |-> 0]
CorruptFile == [kind |-> "corrupt", tickers |-> None, as_of |-> 0]
JsonFile(tickers, as_of) == [kind |-> "json", tickers |-> tickers, as_of |-> as_of]

\* load_cached_members: (tickers, as_of), or (None, None) if missing/corrupt.
load_cached_members(file) ==
  IF file.kind = "json"
  THEN [tickers |-> file.tickers, as_of |-> Some(file.as_of)]
  ELSE [tickers |-> None, as_of |-> None]

\* save_members: the payload written over the cache file.
save_members(tickers, day) == JsonFile(Some(tickers), day)

\* cache_age = (today - as_of).days if as_of else None
cache_age_of(as_of, day) == IF as_of.some THEN Some(day - as_of.val) ELSE None

\* Variant: a cache exactly MAX_CACHE_AGE_DAYS old counts as stale.
should_refresh_at_limit(force_refresh, cached, cache_age) ==
  \/ force_refresh
  \/ cached = None
  \/ cache_age = None
  \/ cache_age.val >= MAX_CACHE_AGE_DAYS

should_refresh(force_refresh, cached, cache_age) ==
  \/ force_refresh
  \/ cached = None
  \/ cache_age = None
  \/ cache_age.val > MAX_CACHE_AGE_DAYS

\* The lines get_sp500_members prints when it refreshes over a non-empty cache.
diff_lines(cached, fresh) ==
  IF cached.some /\ Len(cached.val) > 0
  THEN LET added   == Range(fresh) \ Range(cached.val)
           dropped == Range(cached.val) \ Range(fresh)
       IN  IF added # {} \/ dropped # {}
           THEN << [kind |-> "additions", tickers |-> added],
                   [kind |-> "deletions", tickers |-> dropped] >>
           ELSE << [kind |-> "no_changes"] >>
  ELSE << >>

\* ------------------------------------------------ 2. option liquidity
\* What the provider answers for one ticker: an error somewhere in the
\* retrieval ("fail"), no listed expirations ("noexp"), or the chains of the
\* nearest expiry, reduced to their summed open interest ("chain").
Fail     == [kind |-> "fail",  oi |-> 0]
NoExp    == [kind |-> "noexp", oi |-> 0]
Chain(n) == [kind |-> "chain", oi |-> n]

\* Variant: a retrieval problem is reported as -1.
option_liquidity_metric_sentinel(quote) ==
  IF quote.kind = "fail" THEN -1
  ELSE IF quote.kind = "noexp" THEN 0
  ELSE quote.oi

option_liquidity_metric(quote) ==
  IF quote.kind = "fail" THEN 0
  ELSE IF quote.kind = "noexp" THEN 0
  ELSE quote.oi

\* ------------------------------------------------ 3. ranking and sampling
RECURSIVE InsertDesc(_, _)
InsertDesc(s, x) ==
  IF s = << >> THEN << x >>
  ELSE IF x >= Head(s) THEN << x >> \o s
  ELSE << Head(s) >> \o InsertDesc(Tail(s), x)

RECURSIVE SortDesc(_)
SortDesc(s) == IF s = << >> THEN << >> ELSE InsertDesc(SortDesc(Tail(s)), Head(s))

Values(ser, index) == [k \in 1..Len(index) |-> ser[index[k]]]

\* ser.rank(ascending=False, method="min"): the first place of the value in
\* the descending order.
rank_min(ser, index, t) ==
  LET s == SortDesc(Values(ser, index))
  IN  CHOOSE p \in 1..Len(s) : s[p] = ser[t] /\ \A q \in 1..(p - 1) : s[q] # ser[t]

series_max(ser, index) == SortDesc(Values(ser, index))[1]

\* (ser / ser.max() * 100).round(2), in hundredths; 0/0 is NaN.  Halves round
\* to even, as numpy rounds.
pct_of_max(oi, mx) ==
  IF mx = 0 THEN [nan |-> TRUE, cents |-> 0]
  ELSE LET q == (oi * 10000) \div mx
           r == (oi * 10000) % mx
       IN  [nan |-> FALSE,
            cents |-> IF 2 * r > mx THEN q + 1
                      ELSE IF 2 * r < mx THEN q
                      ELSE IF q % 2 = 0 THEN q ELSE q + 1]

make_frame(ser, index) ==
  [t \in Range(index) |->
     [open_interest |-> ser[t],
      rank          |-> rank_min(ser, index, t),
      pct_of_max    |-> pct_of_max(ser[t], series_max(ser, index))]]

\* ser.median(), doubled.
median2(ser, index) ==
  LET s == SortDesc(Values(ser, index))
      n == Len(s)
  IN  IF n % 2 = 1 THEN 2 * s[(n + 1) \div 2] ELSE s[n \div 2] + s[n \div 2 + 1]

\* Variant: the comparison with the median is not strict.
at_or_above_median(oi, med2) == 2 * oi >= med2

above_median(oi, med2) == 2 * oi > med2

\* df.loc[ser > median_oi].index.tolist()
eligible_of(ser, index) ==
  LET m2      == median2(ser, index)
      Keep(t) == above_median(ser[t], m2)
  IN  SelectSeq(index, Keep)

\* Variant: the check is off by one.
insufficient_pool_off_by_one(pool, count) == Len(pool) + 1 < count

insufficient_pool(pool, count) == Len(pool) < count

\* The generator: random.seed(a) fixes the state from a alone; each
\* _randbelow(n) yields a number below n and advances the state.
seed_state(a)     == a % RngMod
randbelow(rng, n) == rng % n
rng_next(rng)     == (3 * rng + 1) % RngMod

\* random.sample(population, k) for a small population: k draws from a
\* shrinking pool, the drawn slot refilled with the pool's last element.
\* Variant: the drawn slot is not refilled (sampling with replacement).
RECURSIVE sample_loop_replacing(_, _, _, _, _, _)
sample_loop_replacing(pool, n, k, i, rng, result) ==
  IF i >= k THEN [ok |-> TRUE, picks |-> result, rng |-> rng]
  ELSE LET j == randbelow(rng, n - i) + 1
       IN  sample_loop_replacing(pool, n, k, i + 1, rng_next(rng),
                                 Append(result, pool[j]))

RECURSIVE sample_loop(_, _, _, _, _, _)
sample_loop(pool, n, k, i, rng, result) ==
  IF i >= k THEN [ok |-> TRUE, picks |-> result, rng |-> rng]
  ELSE LET j == randbelow(rng, n - i) + 1
       IN  sample_loop([pool EXCEPT ![j] = pool[n - i]], n, k, i + 1,
                       rng_next(rng), Append(result, pool[j]))

sample(population, k, rng) ==
  IF ~(0 <= k /\ k <= Len(population))
  THEN [ok |-> FALSE, picks |-> << >>, rng |-> rng]
  ELSE sample_loop(population, Len(population), k, 0, rng, << >>)

\* ------------------------------------------------------------------ state
VARIABLES
  pc,            \* where main() stands
  args,          \* the parsed command line: count, refresh, seed
  rng,           \* the state of the module-level random generator
  cacheFile,     \* sp500_members.json
  cacheAtStart,  \* its content when the run began
  cacheWrites,   \* how often the run wrote it
  wiki,          \* what the roster page answers
  scrapes,       \* calls of scrape_sp500_members
  market,        \* what the option provider answers, per ticker
  sp500,         \* the roster main() works on
  i,             \* build_liquidity_table: index of the next ticker
  liq,           \* build_liquidity_table: the dict under construction
  calls,         \* tickers handed to option_liquidity_metric, in order
  df,            \* the frame: open_interest, rank, pct_of_max per ticker
  liqFile,       \* sp500_option_liquidity.csv
  liqAtStart,    \* its content when the run began
  liqWrites,     \* how often the run wrote it
  median_oi2,    \* twice ser.median()
  eligible,      \* tickers above the median, in index order
  picks,         \* the sample
  out,           \* lines printed
  err            \* the exception that ended the run, or "none"

vars == << pc, args, rng, cacheFile, cacheAtStart, cacheWrites, wiki, scrapes,
           market, sp500, i, liq, calls, df, liqFile, liqAtStart, liqWrites,
           median_oi2, eligible, picks, out, err >>

WikiDown      == [ok |-> FALSE, symbols |-> << >>]
WikiPage(r)   == [ok |-> TRUE, symbols |-> r]
NoLiqFile     == [exists |-> FALSE, mtime |-> 0, table |-> << >>]
LiqFileOf(day, table) == [exists |-> TRUE, mtime |-> day, table |-> table]
OldTable      ==
  [t \in {"AAA"} |->
     [open_interest |-> 1, rank |-> 1, pct_of_max |-> [nan |-> FALSE, cents |-> 10000]]]

\* Whether a run started on this cache file with this flag scrapes.
WillRefresh(file, force_refresh) ==
  LET c == load_cached_members(file)
  IN  should_refresh(force_refresh, c.tickers, cache_age_of(c.as_of, Today))

\* The roster a run will work on (empty if the scrape fails).
RosterOf(file, force_refresh, page) ==
  IF WillRefresh(file, force_refresh) THEN page.symbols ELSE file.tickers.val

\* ------------------------------------------------------- start states
CacheAges   == {-1, MAX_CACHE_AGE_DAYS - 1, MAX_CACHE_AGE_DAYS, MAX_CACHE_AGE_DAYS + 1}
AllCaches   ==
  {MissingFile, CorruptFile}
    \cup {JsonFile(None, Today - a) : a \in CacheAges}
    \cup {JsonFile(Some(r), Today - a) : r \in Rosters, a \in CacheAges}
AllPages    == {WikiDown} \cup {WikiPage(r) : r \in Rosters}
AllLiqFiles ==
  {NoLiqFile, LiqFileOf(Today, OldTable), LiqFileOf(Today - MAX_CACHE_AGE_DAYS - 1, OldTable)}
Counts      == -1..MaxCount
Seeds       == {None} \cup {Some(a) : a \in 0..MaxSeed}
RngStates   == 0..(RngMod - 1)

\* Two quote patterns: by position in the listing a failure, no expirations,
\* then rising open interest; and zero open interest everywhere.
SomeQuotes(S) ==
  {[t \in S |-> IF Pos(t) = 1 THEN Fail
                ELSE IF Pos(t) = 2 THEN NoExp ELSE Chain(Pos(t) - 1)],
   [t \in S |-> Chain(0)]}

AllQuotes(S) ==
  [S -> {Chain(n) : n \in 0..MaxOI}] \cup [S -> {Fail, NoExp, Chain(0), Chain(MaxOI)}]

FreshCaches == {MissingFile} \cup {JsonFile(Some(r), Today) : r \in Rosters}
SomePages   == {WikiDown, WikiPage(TickerSeq)}

QuotesFor(allQuotes, S) == IF allQuotes THEN AllQuotes(S) ELSE SomeQuotes(S)

\* A run's start: the files as earlier runs or the user left them, the
\* environment's answers, the command line.  Answers the run cannot ask for
\* (the page when the cache is used, quotes of tickers off the roster) are
\* fixed to one value.
InitFrom(caches, pages, refreshes, liqFiles, allQuotes, counts, seeds, entropy) ==
  /\ pc = "main"
  /\ \E c \in counts, f \in refreshes, sd \in seeds :
       args = [count |-> c, refresh |-> f, seed |-> sd]
  /\ rng \in entropy
  /\ cacheFile \in caches
  /\ cacheAtStart = cacheFile
  /\ cacheWrites = 0
  /\ wiki \in pages
  /\ ~WillRefresh(cacheFile, args.refresh) => wiki = WikiDown
  /\ scrapes = 0
  /\ \E q \in QuotesFor(allQuotes, Range(RosterOf(cacheFile, args.refresh, wiki))) :
       market = [t \in Tickers |-> IF t \in DOMAIN q THEN q[t] ELSE Fail]
  /\ sp500 = << >>
  /\ i = 1
  /\ liq = << >>
  /\ calls = << >>
  /\ df = << >>
  /\ liqFile \in liqFiles
  /\ liqAtStart = liqFile
  /\ liqWrites = 0
  /\ median_oi2 = 0
  /\ eligible = << >>
  /\ picks = << >>
  /\ out = << >>
  /\ err = "none"

\* ---------------------------------------------------------------- actions
\* Variant: the seed is parsed and never applied.
seed_rng_ignored ==
  /\ pc = "main"
  /\ pc' = "roster"
  /\ UNCHANGED << args, rng, cacheFile, cacheAtStart, liqAtStart, cacheWrites, wiki,
                  scrapes, market, sp500, i, liq, calls, df, liqFile, liqWrites,
                  median_oi2, eligible, picks, out, err >>

\* main, lines 148-149: if args.seed is not None: random.seed(args.seed)
seed_rng ==
  /\ pc = "main"
  /\ rng' = IF args.seed.some THEN seed_state(args.seed.val) ELSE rng
  /\ pc' = "roster"
  /\ UNCHANGED << args, cacheFile, cacheAtStart, liqAtStart, cacheWrites, wiki, scrapes, market,
                  sp500, i, liq, calls, df, liqFile, liqWrites, median_oi2,
                  eligible, picks, out, err >>

\* Variant: a failed scrape falls back to the cached list when there is one.
get_sp500_members_fallback ==
  /\ pc = "roster"
  /\ LET c         == load_cached_members(cacheFile)
         cached    == c.tickers
         cache_age == cache_age_of(c.as_of, Today)
     IN  IF ~should_refresh(args.refresh, cached, cache_age)
         THEN /\ sp500' = cached.val
              /\ pc' = "build"
              /\ UNCHANGED << scrapes, cacheFile, cacheWrites, err >>
         ELSE /\ scrapes' = scrapes + 1
              /\ IF ~wiki.ok /\ cached.some
                 THEN /\ sp500' = cached.val
                      /\ pc' = "build"
                      /\ UNCHANGED << cacheFile, cacheWrites, err >>
                 ELSE IF ~wiki.ok
                 THEN /\ err' = "FetchError"
                      /\ pc' = "raised"
                      /\ UNCHANGED << sp500, cacheFile, cacheWrites >>
                 ELSE /\ cacheFile' = save_members(wiki.symbols, Today)
                      /\ cacheWrites' = cacheWrites + 1
                      /\ sp500' = wiki.symbols
                      /\ pc' = "build"
                      /\ UNCHANGED err
  /\ UNCHANGED << args, rng, cacheAtStart, liqAtStart, wiki, market, i, liq, calls, df,
                  liqFile, liqWrites, median_oi2, eligible, picks, out >>

\* main, line 154: sp500 = get_sp500_members(force_refresh=args.refresh)
get_sp500_members ==
  /\ pc = "roster"
  /\ LET c         == load_cached_members(cacheFile)
         cached    == c.tickers
         cache_age == cache_age_of(c.as_of, Today)
     IN  IF ~should_refresh(args.refresh, cached, cache_age)
         THEN /\ out' = Append(out, [kind |-> "loaded", n |-> Len(cached.val),
                                     age |-> cache_age.val])
              /\ sp500' = cached.val
              /\ pc' = "build"
              /\ UNCHANGED << scrapes, cacheFile, cacheWrites, err >>
         ELSE /\ scrapes' = scrapes + 1
              /\ IF ~wiki.ok
                 THEN /\ out' = Append(out, [kind |-> "refreshing"])
                      /\ err' = "FetchError"
                      /\ pc' = "raised"
                      /\ UNCHANGED << sp500, cacheFile, cacheWrites >>
                 ELSE /\ cacheFile' = save_members(wiki.symbols, Today)
                      /\ cacheWrites' = cacheWrites + 1
                      /\ out' = (Append(out, [kind |-> "refreshing"])
                                   \o diff_lines(cached, wiki.symbols))
                                \o << [kind |-> "cached", n |-> Len(wiki.symbols)] >>
                      /\ sp500' = wiki.symbols
                      /\ pc' = "build"
                      /\ UNCHANGED err
  /\ UNCHANGED << args, rng, cacheAtStart, liqAtStart, wiki, market, i, liq, calls, df, liqFile,
                  liqWrites, median_oi2, eligible, picks >>

\* Variant: a persisted liquidity table within the max age is reused instead
\* of fetching, unless --refresh is given.
fetch_next_unless_cached ==
  /\ pc = "build"
  /\ i <= Len(sp500)
  /\ IF ~args.refresh /\ liqFile.exists /\ Today - liqFile.mtime <= MAX_CACHE_AGE_DAYS
     THEN /\ liq' = [t \in Range(sp500) |->
                       IF t \in DOMAIN liqFile.table
                       THEN liqFile.table[t].open_interest ELSE 0]
          /\ i' = Len(sp500) + 1
          /\ UNCHANGED calls
     ELSE /\ calls' = Append(calls, sp500[i])
          /\ liq' = (sp500[i] :> option_liquidity_metric(market[sp500[i]])) @@ liq
          /\ i' = i + 1
  /\ UNCHANGED << pc, args, rng, cacheFile, cacheAtStart, liqAtStart, cacheWrites, wiki,
                  scrapes, market, sp500, df, liqFile, liqWrites, median_oi2,
                  eligible, picks, out, err >>

\* build_liquidity_table, lines 125-129: one turn of the loop.
fetch_next ==
  /\ pc = "build"
  /\ i <= Len(sp500)
  /\ LET tkr == sp500[i]
         oi  == option_liquidity_metric(market[tkr])
     IN  /\ calls' = Append(calls, tkr)
         /\ liq' = (tkr :> oi) @@ liq
         /\ out' = Append(out, [kind |-> "progress", i |-> i, n |-> Len(sp500),
                                ticker |-> tkr, oi |-> oi])
  /\ i' = i + 1
  /\ UNCHANGED << pc, args, rng, cacheFile, cacheAtStart, liqAtStart, cacheWrites, wiki, scrapes,
                  market, sp500, df, liqFile, liqWrites, median_oi2, eligible,
                  picks, err >>

\* main, lines 157-163: the loop is over; build the frame with rank and
\* pct_of_max.
frame ==
  /\ pc = "build"
  /\ i > Len(sp500)
  /\ df' = make_frame(liq, sp500)
  /\ pc' = "to_csv"
  /\ UNCHANGED << args, rng, cacheFile, cacheAtStart, liqAtStart, cacheWrites, wiki, scrapes,
                  market, sp500, i, liq, calls, liqFile, liqWrites, median_oi2,
                  eligible, picks, out, err >>

\* Variant: the table is not written before the eligibility check.
to_csv_skipped ==
  /\ pc = "to_csv"
  /\ pc' = "eligible"
  /\ UNCHANGED << args, rng, cacheFile, cacheAtStart, liqAtStart, cacheWrites, wiki,
                  scrapes, market, sp500, i, liq, calls, df, liqFile, liqWrites,
                  median_oi2, eligible, picks, out, err >>

\* main, lines 166-167: df.to_csv(LIQ_CSV_PATH)
to_csv ==
  /\ pc = "to_csv"
  /\ liqFile' = LiqFileOf(Today, df)
  /\ liqWrites' = liqWrites + 1
  /\ out' = Append(out, [kind |-> "written"])
  /\ pc' = "eligible"
  /\ UNCHANGED << args, rng, cacheFile, cacheAtStart, liqAtStart, cacheWrites, wiki, scrapes,
                  market, sp500, i, liq, calls, df, median_oi2, eligible, picks, err >>

\* main, lines 170-173: median, eligible, the insufficient-pool check.
select_eligible ==
  /\ pc = "eligible"
  /\ median_oi2' = median2(liq, sp500)
  /\ eligible' = eligible_of(liq, sp500)
  /\ IF insufficient_pool(eligible', args.count)
     THEN /\ err' = "RuntimeError"
          /\ pc' = "raised"
     ELSE /\ pc' = "sample"
          /\ UNCHANGED err
  /\ UNCHANGED << args, rng, cacheFile, cacheAtStart, liqAtStart, cacheWrites, wiki, scrapes,
                  market, sp500, i, liq, calls, df, liqFile, liqWrites, picks, out >>

\* main, line 175: picks = random.sample(eligible, args.count)
draw_sample ==
  /\ pc = "sample"
  /\ LET s == sample(eligible, args.count, rng)
     IN  IF s.ok
         THEN /\ picks' = s.picks
              /\ rng' = s.rng
              /\ pc' = "report"
              /\ UNCHANGED err
         ELSE /\ err' = "ValueError"
              /\ pc' = "raised"
              /\ UNCHANGED << picks, rng >>
  /\ UNCHANGED << args, cacheFile, cacheAtStart, liqAtStart, cacheWrites, wiki, scrapes, market,
                  sp500, i, liq, calls, df, liqFile, liqWrites, median_oi2,
                  eligible, out >>

\* One line of the report.  row = df.loc[tkr] is a Series, so row.rank is its
\* rank method and not the value of the rank column.
pick_line(tkr) ==
  [kind |-> "pick", ticker |-> tkr, open_interest |-> df[tkr].open_interest,
   rank |-> "bound method Series.rank", n |-> Len(sp500),
   pct_of_max |-> df[tkr].pct_of_max]

\* main, lines 178-186: the report.
print_report ==
  /\ pc = "report"
  /\ out' = ((out \o << [kind |-> "rule"],
                        [kind |-> "median", median2 |-> median_oi2],
                        [kind |-> "header", count |-> args.count] >>)
               \o [k \in 1..Len(picks) |-> pick_line(picks[k])])
            \o << [kind |-> "done"] >>
  /\ pc' = "done"
  /\ UNCHANGED << args, rng, cacheFile, cacheAtStart, liqAtStart, cacheWrites, wiki, scrapes,
                  market, sp500, i, liq, calls, df, liqFile, liqWrites, median_oi2,
                  eligible, picks, err >>

Next ==
  \/ seed_rng
  \/ get_sp500_members
  \/ fetch_next
  \/ frame
  \/ to_csv
  \/ select_eligible
  \/ draw_sample
  \/ print_report

\* Runs over every roster cache, page and liquidity file.
Init ==
  InitFrom(AllCaches, AllPages, BOOLEAN, AllLiqFiles, FALSE, {-1, 1, MaxCount},
           {None}, {0})

Spec == Init /\ [][Next]_vars

\* Runs over every quote pattern, count and seed.
InitTable ==
  InitFrom(FreshCaches, SomePages, {FALSE}, {NoLiqFile}, TRUE, Counts, Seeds,
           {0, RngMod - 1})

SpecTable == InitTable /\ [][Next]_vars

\* ----------------------------------------------------------------- claims
\* Where a run stands.
RosterResolved == pc \notin {"main", "roster"} /\ err # "FetchError"
Built          == RosterResolved /\ (pc = "build" => i > Len(sp500))
Framed         == RosterResolved /\ pc # "build"
AtCheck        == Framed /\ pc # "to_csv"
Checked        == AtCheck /\ pc # "eligible"
Ended          == pc \in {"done", "raised"}

ReportKinds    == {"rule", "median", "header", "pick", "done"}
ReportLines    == LET IsReport(l) == l.kind \in ReportKinds IN SelectSeq(out, IsReport)
ReportedPicks  ==
  LET IsPick(l) == l.kind = "pick"
      lines     == SelectSeq(out, IsPick)
  IN  [k \in 1..Len(lines) |-> lines[k].ticker]
Distinct(s)    == \A a, b \in 1..Len(s) : a # b => s[a] # s[b]

\* The cache a run started on, as the roster cache's contract reads it.
CacheAbsent    == cacheAtStart.kind # "json" \/ cacheAtStart.tickers = None
CacheTooOld    ==
  cacheAtStart.kind = "json" /\ Today - cacheAtStart.as_of > MAX_CACHE_AGE_DAYS

\* C1: get_sp500_members calls scrape_sp500_members if and only if
\* force_refresh is set, or the roster cache is absent (missing, unparseable,
\* or holding no ticker list), or it is more than MAX_CACHE_AGE_DAYS days
\* old; otherwise it returns the cached list and leaves the cache file alone.
C1_ScrapeIffForcedAbsentOrStale ==
  pc \notin {"main", "roster"} =>
    /\ scrapes <= 1
    /\ (scrapes = 1) <=> (args.refresh \/ CacheAbsent \/ CacheTooOld)
    /\ scrapes = 0 =>
         /\ sp500 = cacheAtStart.tickers.val
         /\ cacheFile = cacheAtStart
         /\ cacheWrites = 0

\* C1 witness: a cache exactly MAX_CACHE_AGE_DAYS old was used as it is.
C1_Witness ==
  /\ pc = "build"
  /\ scrapes = 0
  /\ cacheAtStart.kind = "json"
  /\ Today - cacheAtStart.as_of = MAX_CACHE_AGE_DAYS
  /\ sp500 = cacheAtStart.tickers.val

LiqFileFresh ==
  liqAtStart.exists /\ Today - liqAtStart.mtime <= MAX_CACHE_AGE_DAYS

Greater(t)  == {u \in Range(sp500) : liq[u] > liq[t]}
MaxOfTable  == CHOOSE v \in {liq[t] : t \in Range(sp500)} :
                 \A u \in Range(sp500) : liq[u] <= v
Abs(x)      == IF x < 0 THEN -x ELSE x

\* C3: every record of the table has rank = 1 + (number of records with
\* strictly greater open interest) and pct_of_max = 100 * open_interest / max
\* rounded to 2 decimals, in [0, 100]; records at the maximum have rank 1 and
\* pct_of_max 100.00 (also when every fetch returned 0).
C3_RankAndPctOfMax ==
  Framed => \A t \in Range(sp500) :
    /\ df[t].rank = 1 + Cardinality(Greater(t))
    /\ ~df[t].pct_of_max.nan
    /\ df[t].pct_of_max.cents \in 0..10000
    /\ 2 * Abs(df[t].pct_of_max.cents * MaxOfTable - 10000 * liq[t]) <= MaxOfTable
    /\ liq[t] = MaxOfTable => (df[t].rank = 1 /\ df[t].pct_of_max.cents = 10000)

\* The k-th smallest open interest, by counting.
KthSmallest(k) ==
  CHOOSE v \in {liq[t] : t \in Range(sp500)} :
    /\ Cardinality({t \in Range(sp500) : liq[t] < v}) < k
    /\ Cardinality({t \in Range(sp500) : liq[t] <= v}) >= k
TwiceMedian ==
  LET n == Len(sp500)
  IN  IF n % 2 = 1 THEN 2 * KthSmallest((n + 1) \div 2)
      ELSE KthSmallest(n \div 2) + KthSmallest(n \div 2 + 1)

\* C4: the eligible set is exactly the set of tickers whose open interest is
\* strictly greater than the median (mean of the two middle values for an
\* even number of records); a ticker at the median is never eligible.
C4_EligibleIsStrictlyAboveMedian ==
  Checked =>
    /\ Range(eligible) = {t \in Range(sp500) : 2 * liq[t] > TwiceMedian}
    /\ \A t \in Range(sp500) : 2 * liq[t] = TwiceMedian => t \notin Range(eligible)

\* C4 witness: a table with a record exactly at the median, left out, next
\* to records above it, kept.
C4_Witness ==
  /\ Checked
  /\ eligible # << >>
  /\ \E t \in Range(sp500) : 2 * liq[t] = TwiceMedian

\* C5: whenever the requested count exceeds the eligible pool, the run ends
\* with the insufficient-pool error, no sample is drawn and no line of the
\* pick report is printed.
C5_InsufficientPoolAborts ==
  (Checked /\ args.count > Len(eligible)) =>
    /\ pc = "raised"
    /\ err = "RuntimeError"
    /\ picks = << >>
    /\ ReportLines = << >>

\* C5 witness: a non-empty pool that is still too small.
C5_Witness ==
  /\ pc = "raised"
  /\ err = "RuntimeError"
  /\ eligible # << >>
  /\ args.count = Len(eligible) + 1

PicksAreKDistinctFromPool ==
  /\ pc = "done"
  /\ ReportedPicks = picks
  /\ Len(picks) = args.count
  /\ Distinct(picks)
  /\ Range(picks) \subseteq Range(eligible)

\* C6, as claimed: for every integer count k and pool of size m >= k the
\* insufficient-pool path is not taken and the run reports exactly k
\* pairwise distinct tickers of the pool.
C6_SampleForEveryCount ==
  (Checked /\ args.count <= Len(eligible)) =>
    /\ err # "RuntimeError"
    /\ Ended => PicksAreKDistinctFromPool

\* C6, amended: the same for every count k >= 0; for k < 0 the
\* insufficient-pool path is not taken either, random.sample raises
\* ValueError and nothing is reported.
C6_SampleForNonNegativeCount ==
  (Checked /\ args.count <= Len(eligible)) =>
    /\ err # "RuntimeError"
    /\ (Ended /\ args.count >= 0) => PicksAreKDistinctFromPool
    /\ (Ended /\ args.count < 0) =>
         (pc = "raised" /\ err = "ValueError" /\ ReportLines = << >>)

\* C6 witness: two tickers drawn from a pool of two.
C6_Witness ==
  /\ pc = "done"
  /\ Len(eligible) = 2
  /\ Len(ReportedPicks) = 2

\* C7: with --seed the picks are a function of (seed, pool, count) alone, and
\* between seeding and sampling the generator's state is neither consumed nor
\* reseeded.
C7_SeededPicksReproducible ==
  args.seed.some =>
    /\ pc \in {"roster", "build", "to_csv", "eligible", "sample"} =>
         rng = seed_state(args.seed.val)
    /\ pc \in {"report", "done"} =>
         picks = sample(eligible, args.count, seed_state(args.seed.val)).picks

\* C7 witness: a seeded run that drew two tickers.
C7_Witness ==
  /\ pc = "done"
  /\ args.seed.some
  /\ Len(picks) = 2

\* C8: build_liquidity_table calls the fetcher exactly once per roster
\* ticker in roster order, never aborts on a failed fetch, and returns one
\* non-negative entry per roster ticker, 0 where the fetch failed or found
\* no expirations.
C8_OneFetchPerTickerFailuresAreZero ==
  /\ (RosterResolved /\ pc = "build") =>
       /\ calls = SubSeq(sp500, 1, i - 1)
       /\ DOMAIN liq = Range(calls)
       /\ \A t \in Range(calls) :
            /\ liq[t] \in Nat
            /\ market[t].kind \in {"fail", "noexp"} => liq[t] = 0
  /\ (RosterResolved /\ pc # "build") =>
       /\ calls = sp500
       /\ DOMAIN liq = Range(sp500)
       /\ \A t \in Range(sp500) :
            /\ liq[t] \in Nat
            /\ market[t].kind \in {"fail", "noexp"} => liq[t] = 0
            /\ market[t].kind = "chain" => liq[t] = market[t].oi

\* C8 witness: a built table whose roster had a failing fetch, a ticker
\* without expirations and a ticker with open interest.
C8_Witness ==
  /\ Framed
  /\ \E t, u, v \in Range(sp500) :
       /\ market[t].kind = "fail"
       /\ market[u].kind = "noexp"
       /\ market[v].kind = "chain" /\ market[v].oi > 0
       /\ Pos(t) < Pos(v)

\* C9: when a refresh is attempted and the roster fetch fails, the run ends
\* with that error: the roster cache file is as it was, no liquidity fetch
\* is made, the liquidity file is not written and no report is printed.
C9_RosterFetchFailureAborts ==
  (scrapes > 0 /\ ~wiki.ok) =>
    /\ pc = "raised"
    /\ err = "FetchError"
    /\ scrapes = 1
    /\ cacheFile = cacheAtStart
    /\ cacheWrites = 0
    /\ calls = << >>
    /\ liqFile = liqAtStart
    /\ liqWrites = 0
    /\ ReportLines = << >>

\* C9 witness: the fetch failed over a stale cache that held a roster.
C9_Witness ==
  /\ pc = "raised"
  /\ err = "FetchError"
  /\ cacheAtStart.kind = "json"
  /\ cacheAtStart.tickers.some
  /\ CacheTooOld

\* C10: when the eligibility check is reached the liquidity file already
\* holds the newly built table (open_interest, rank, pct_of_max, one row per
\* roster ticker), written exactly once, also when the run then aborts with
\* the insufficient-pool error; before that the run has not written it.
C10_TableWrittenBeforeCheck ==
  /\ AtCheck =>
       /\ liqWrites = 1
       /\ liqFile.exists
       /\ liqFile.table = df
       /\ DOMAIN liqFile.table = Range(sp500)
       /\ \A t \in Range(sp500) :
            /\ DOMAIN liqFile.table[t] = {"open_interest", "rank", "pct_of_max"}
            /\ liqFile.table[t].open_interest = liq[t]
  /\ ~AtCheck => (liqWrites = 0 /\ liqFile = liqAtStart)

\* C10 witness: a run that aborted with the insufficient-pool error and left
\* an existing liquidity file replaced.
C10_Witness ==
  /\ pc = "raised"
  /\ err = "RuntimeError"
  /\ liqAtStart.exists
  /\ liqFile # liqAtStart
  /\ liqWrites = 1

====
